---- MODULE Spec2Model ----
(***************************************************************************)
(* BVAT_logger.py: a serial line reader that records data frames as CSV    *)
(* rows between a start marker and a stop marker.                          *)
(*                                                                         *)
(* The model follows the main thread statement by statement (pc is the     *)
(* source line about to run), because the SIGINT handler installed at      *)
(* line 187 runs between two statements of whatever the loop is doing.     *)
(* Files are modelled as handles (one per successful open()) with the      *)
(* writer's pending buffer, and the storage as a map from path to rows.    *)
(***************************************************************************)
EXTENDS Integers, Sequences, FiniteSets, TLC

(* ------------------------------ bounds -------------------------------- *)
\* number of open() calls that return a file in one run
MaxOpens == 2
\* number of data rows written in one run
MaxRows == 2
\* the wall clock takes the instants 0..MaxClock
MaxClock == 2
\* clock instants in one second of wall-clock time
TicksPerSecond == 2

(* --------------------------- text of a line --------------------------- *)
\* A line is a sequence of tokens.  A token is the start marker text, the
\* stop marker text, other text, or text of the shape
\*   DATA, Accel(X: x, Y: y, Z: z), GPS(Fix: f, Spd: s)
\* whose five field texts are sequences of characters.
StartTok == [t |-> "start"]
StopTok == [t |-> "stop"]
JunkTok == [t |-> "junk"]
FrameTok(x, y, z, f, s) == [t |-> "frame", x |-> x, y |-> y, z |-> z, f |-> f, s |-> s]

Digits == {"0", "1", "2", "3", "4", "5", "6", "7", "8", "9"}

DigitVal(c) ==
    CASE c = "0" -> 0 [] c = "1" -> 1 [] c = "2" -> 2 [] c = "3" -> 3
      [] c = "4" -> 4 [] c = "5" -> 5 [] c = "6" -> 6 [] c = "7" -> 7
      [] c = "8" -> 8 [] c = "9" -> 9

\* the regex group  -?[\d.]+
MatchesSigned(s) ==
    LET body == IF Len(s) > 0 /\ s[1] = "-" THEN Tail(s) ELSE s
    IN  /\ Len(body) > 0
        /\ \A i \in 1..Len(body) : body[i] \in Digits \cup {"."}

\* the regex group  \d
MatchesDigit(s) == Len(s) = 1 /\ s[1] \in Digits

\* the whole pattern, on one token
PatternMatches(tok) ==
    /\ tok.t = "frame"
    /\ MatchesSigned(tok.x) /\ MatchesSigned(tok.y) /\ MatchesSigned(tok.z)
    /\ MatchesDigit(tok.f)
    /\ MatchesSigned(tok.s)

\* pattern.search(line): the leftmost match, 0 when there is none
PatternSearch(line) ==
    LET hits == {i \in 1..Len(line) : PatternMatches(line[i])}
    IN  IF hits = {} THEN 0 ELSE CHOOSE i \in hits : \A j \in hits : i <= j

RECURSIVE DigitsValue(_)
DigitsValue(s) ==
    IF s = <<>> THEN 0
    ELSE 10 * DigitsValue(SubSeq(s, 1, Len(s) - 1)) + DigitVal(s[Len(s)])

\* float(text) for a text that matched -?[\d.]+ : ValueError unless the text
\* has at most one point and at least one digit.  The value is kept in
\* hundredths (the texts of Lines have at most two decimals).
FloatOf(s) ==
    LET neg  == s[1] = "-"
        body == IF neg THEN Tail(s) ELSE s
        dots == {i \in 1..Len(body) : body[i] = "."}
        dot  == IF dots = {} THEN Len(body) + 1 ELSE CHOOSE i \in dots : TRUE
        ip   == SubSeq(body, 1, dot - 1)
        fp   == SubSeq(body, dot + 1, Len(body))
        fp2  == SubSeq(fp \o <<"0", "0">>, 1, 2)
        mag  == 100 * DigitsValue(ip) + DigitsValue(fp2)
    IN  IF Cardinality(dots) > 1 \/ Len(ip) + Len(fp) = 0
        THEN [ok |-> FALSE, val |-> 0]
        ELSE [ok |-> TRUE, val |-> IF neg THEN 0 - mag ELSE mag]

\* int(text) for a text that matched \d
IntOf(s) == [ok |-> TRUE, val |-> DigitVal(s[1])]

NoneData == [ok |-> FALSE]

parse_data_line_unchecked(line) ==
    LET i == PatternSearch(line)
    IN  IF i = 0 THEN NoneData
        ELSE [ok |-> TRUE,
              accel_x |-> FloatOf(line[i].x).val,
              accel_y |-> FloatOf(line[i].y).val,
              accel_z |-> FloatOf(line[i].z).val,
              gps_fix |-> IntOf(line[i].f).val,
              gps_speed |-> FloatOf(line[i].s).val]

parse_data_line(line) ==
    LET i == PatternSearch(line)
    IN  IF i = 0 THEN NoneData
        ELSE LET x == FloatOf(line[i].x)
                 y == FloatOf(line[i].y)
                 z == FloatOf(line[i].z)
                 f == IntOf(line[i].f)
                 s == FloatOf(line[i].s)
             IN  IF x.ok /\ y.ok /\ z.ok /\ f.ok /\ s.ok
                 THEN [ok |-> TRUE, accel_x |-> x.val, accel_y |-> y.val,
                       accel_z |-> z.val, gps_fix |-> f.val, gps_speed |-> s.val]
                 ELSE NoneData

\* "=== Data Logging STARTED ===" in line
HasStart(line) == \E i \in 1..Len(line) : line[i].t = "start"
\* "=== Data Logging STOPPED ===" in line
HasStop(line) == \E i \in 1..Len(line) : line[i].t = "stop"
\* line.startswith("DATA,")
StartsWithData(line) == Len(line) > 0 /\ line[1].t = "frame"

(* --------------------------- the input lines -------------------------- *)
T012 == <<"0", ".", "1", "2">>
Tm003 == <<"-", "0", ".", "0", "3">>
T981 == <<"9", ".", "8", "1">>
T425 == <<"4", "2", ".", "5">>
T1 == <<"1">>
T0 == <<"0">>
T7 == <<"7">>
T123 == <<"1", ".", "2", ".", "3">>
Tdot == <<".">>
Tabc == <<"a">>

GoodFrame == FrameTok(T012, Tm003, T981, T1, T425)
OtherFrame == FrameTok(Tm003, T012, T425, T7, Tdot \o T0)
BadNumFrame == FrameTok(T123, Tm003, T981, T1, T425)
DotFrame == FrameTok(T012, Tm003, T981, T1, Tdot)
NoMatchFrame == FrameTok(Tabc, Tm003, T981, T1, T425)

Lines ==
    { <<StartTok>>,
      <<StopTok>>,
      <<JunkTok, StartTok, StopTok>>,
      <<GoodFrame>>,
      <<OtherFrame>>,
      <<BadNumFrame>>,
      <<DotFrame>>,
      <<NoMatchFrame>>,
      <<JunkTok>>,
      <<JunkTok, GoodFrame>>,
      <<GoodFrame, StartTok>>,
      <<GoodFrame, StopTok>> }

(* ------------------------------- files -------------------------------- *)
None == 0

HeaderRow ==
    [kind |-> "header",
     cols |-> <<"Timestamp", "Accel_X_g", "Accel_Y_g", "Accel_Z_g", "GPS_Fix", "Speed_kmh">>]

DataRowFixLast(ts, d) ==
    [kind |-> "data",
     cols |-> <<ts, d.accel_x, d.accel_y, d.accel_z, d.gps_speed, d.gps_fix>>]

DataRow(ts, d) ==
    [kind |-> "data",
     cols |-> <<ts, d.accel_x, d.accel_y, d.accel_z, d.gps_fix, d.gps_speed>>]

\* datetime.now().strftime("%Y%m%d_%H%M%S"): the instant cut to its second
StrfSeconds(t) == t \div TicksPerSecond
\* datetime.now().strftime("%Y-%m-%d %H:%M:%S.%f")[:-3]: the instant, to the
\* millisecond (a clock instant is a whole number of milliseconds)
StrfMillis(t) == [sec |-> t \div TicksPerSecond, ms |-> t % TicksPerSecond]
\* os.path.join("logs", f"datalog_{timestamp}.csv")
PathOf(timestamp) == <<"logs", timestamp>>

\* A file system state: the file objects made by open() so far, in order, and
\* the rows each path holds on storage.
NewFile(path) == [path |-> path, open |-> TRUE, buf |-> <<>>]

\* open(path, 'w'): creates or truncates the file
OpenW(f, path) ==
    [handles |-> Append(f.handles, NewFile(path)),
     disk |-> [p \in DOMAIN f.disk \cup {path} |->
                 IF p = path THEN <<>> ELSE f.disk[p]]]

\* writer.writerow(row): the row goes to the file object's buffer
WriteRow(f, h, row) ==
    [f EXCEPT !.handles[h].buf = Append(@, row)]

\* file.flush(): the buffer goes to storage
Flush(f, h) ==
    LET p == f.handles[h].path
    IN  [handles |-> [f.handles EXCEPT ![h].buf = <<>>],
         disk |-> [f.disk EXCEPT ![p] = @ \o f.handles[h].buf]]

\* file.close(): flushes and closes; closing a closed file does nothing
Close(f, h) ==
    IF f.handles[h].open
    THEN LET g == Flush(f, h)
         IN  [g EXCEPT !.handles[h].open = FALSE]
    ELSE f

\* The file object h has lost its last reference (csv_writer was the only
\* name bound to it and has been rebound): the runtime finalises it, at once
\* or not before the process ends.
Finalised(f, h, now_or_later) ==
    IF h # None /\ now_or_later THEN Close(f, h) ELSE f

OpenHandles(f) == {h \in 1..Len(f.handles) : f.handles[h].open}

(* ------------------------- interactive setup -------------------------- *)
\* A port of comports(): its device name, and whether its description or
\* manufacturer names an ST-Link.
PortA == [device |-> <<"A">>, stlink |-> FALSE]
PortS == [device |-> <<"S">>, stlink |-> TRUE]
PortLists == {<<>>, <<PortA>>, <<PortA, PortS>>}

\* What input() gives: the text typed (stripped), or EOFError
Typed(text) == [eof |-> FALSE, text |-> text]
Eof == [eof |-> TRUE, text |-> <<>>]
PortInputs == {Eof, Typed(<<>>), Typed(<<"1">>), Typed(<<"5">>), Typed(<<"x">>)}
BaudInputs == {Eof, Typed(<<>>), Typed(<<"9", "6">>), Typed(<<"0">>), Typed(<<"x">>)}

\* the default of get_baud_rate
DefaultBaud == 115200

\* int(text) succeeds: digits, after an optional sign
IsIntText(s) ==
    LET body == IF Len(s) > 0 /\ s[1] = "-" THEN Tail(s) ELSE s
    IN  Len(body) > 0 /\ \A i \in 1..Len(body) : body[i] \in Digits

IntText(s) ==
    IF s[1] = "-" THEN 0 - DigitsValue(Tail(s)) ELSE DigitsValue(s)

\* None, and the empty string: what `if not port` / `if not baud` rejects
NoPort == <<>>
NoBaud == 0

\* lines 134-140: the device of the first ST-Link port, if any
DefaultPort(ports) ==
    LET st == {i \in 1..Len(ports) : ports[i].stlink}
    IN  IF st = {} THEN NoPort
        ELSE ports[CHOOSE i \in st : \A j \in st : i <= j].device

select_serial_port_literal(ports, input) ==
    IF input.eof THEN [port |-> NoPort, said |-> {"Selection cancelled."}]
    ELSE IF input.text = <<>> /\ DefaultPort(ports) # NoPort
    THEN [port |-> DefaultPort(ports), said |-> {}]
    ELSE IF IsIntText(input.text) /\ IntText(input.text) \in 0..(Len(ports) - 1)
    THEN [port |-> ports[IntText(input.text) + 1].device, said |-> {}]
    ELSE [port |-> input.text, said |-> {}]

\* lines 130-161 (ports is not empty: main returned at line 192 otherwise)
select_serial_port(ports, input) ==
    IF input.eof THEN [port |-> NoPort, said |-> {"Selection cancelled."}]
    ELSE IF input.text = <<>> /\ DefaultPort(ports) # NoPort
    THEN [port |-> DefaultPort(ports), said |-> {}]
    ELSE IF IsIntText(input.text)
    THEN IF IntText(input.text) \in 0..(Len(ports) - 1)
         THEN [port |-> ports[IntText(input.text) + 1].device, said |-> {}]
         ELSE [port |-> NoPort, said |-> {"Invalid port number."}]
    ELSE [port |-> input.text, said |-> {}]

\* lines 163-173
get_baud_rate(input) ==
    IF input.eof THEN [baud |-> NoBaud, said |-> {"Selection cancelled."}]
    ELSE IF input.text = <<>> THEN [baud |-> DefaultBaud, said |-> {}]
    ELSE IF IsIntText(input.text)
    THEN [baud |-> IntText(input.text), said |-> {}]
    ELSE [baud |-> DefaultBaud, said |-> {"Invalid number, using default."}]

NoSetup == [stage |-> "none", ports |-> <<>>, choice |-> Eof, entry |-> Eof,
            port |-> NoPort, baud |-> NoBaud, said |-> {}]

(* ------------------------------- state -------------------------------- *)
VARIABLES
    pc,                   \* the source line the main thread runs next
    ret,                  \* where the running stop_logging() returns to
    mode,                 \* "loop", "sigint" (handler run by the signal),
                          \* "finally" (handler run by line 230), "done"
    is_logging, csv_file, csv_writer, current_csv_filename,   \* lines 14-17
    ser_open,             \* ser.is_open
    timestamp,            \* local of start_logging
    parsed_data,          \* local of process_serial_line
    row_ts,               \* local of process_serial_line (its timestamp)
    fs,                   \* file objects and storage
    now,                  \* the wall clock
    exit_status,          \* -1 while the process runs
    line,                 \* the line being processed, or processed last
    \* history, read by the properties only
    pre,                  \* the session and the files when `line` was read
    wrote,                \* data rows written while processing `line`
    opened,               \* file object opened while processing `line`
    startFail,            \* the step of start_logging that failed on `line`
    reported,             \* line 76 has reported a failure on `line`
    sessLines,            \* valid data lines since the last start-marker line
    written,              \* per file object, the rows written through it
    nrows,                \* data rows written so far
    cause,                \* why the loop ended
    stopPre,              \* the session and the files when the stop_logging
                          \* call that is running or has just returned began
    setup,                \* main before the loop: the ports listed, what the
                          \* user typed, the port and baud rate chosen, what
                          \* was reported
    intr                  \* where the signal found the loop, until the
                          \* handler's stop_logging has returned

vars == <<pc, ret, mode, is_logging, csv_file, csv_writer, current_csv_filename,
          ser_open, timestamp, parsed_data, row_ts, fs, now, exit_status, line,
          pre, wrote, opened, startFail, reported, sessLines, written, nrows,
          cause, stopPre, setup, intr>>

globals == <<is_logging, csv_file, csv_writer, current_csv_filename>>
locals == <<timestamp, parsed_data, row_ts>>
hist == <<pre, wrote, opened, startFail, reported, sessLines, written, nrows>>

Running == 0 - 1

Session == [is_logging |-> is_logging, csv_file |-> csv_file,
            csv_writer |-> csv_writer,
            current_csv_filename |-> current_csv_filename, fs |-> fs]

StopCall == [called |-> TRUE, s |-> Session]

\* a line that process_serial_line turns into a row when a session is active
ValidDataLine(l) ==
    ~HasStart(l) /\ ~HasStop(l) /\ StartsWithData(l) /\ parse_data_line(l).ok

\* no line is being processed / no stop_logging call has just run
NoPre == [opened |-> None, s |-> <<>>]
NoStop == [called |-> FALSE, s |-> <<>>]
NoLocal == 0 - 1

Init ==
    /\ pc = "L191" /\ ret = "L225" /\ mode = "setup"
    /\ setup = NoSetup /\ intr = "none"
    /\ is_logging = FALSE /\ csv_file = None /\ csv_writer = None
    /\ current_csv_filename = <<>>
    /\ ser_open = FALSE
    /\ timestamp = NoLocal /\ parsed_data = NoLocal /\ row_ts = NoLocal
    /\ fs = [handles |-> <<>>, disk |-> <<>>]
    /\ now = 0
    /\ exit_status = Running
    /\ line = <<>>
    /\ pre = NoPre
    /\ wrote = 0 /\ opened = None /\ startFail = "none" /\ reported = FALSE
    /\ sessLines = <<>> /\ written = <<>> /\ nrows = 0
    /\ cause = "none"
    /\ stopPre = NoStop

(* ------------------------ main: before the loop ----------------------- *)
loopvars == <<ret, globals, locals, fs, now, line, hist, cause, stopPre, intr>>

\* lines 191-192: list_serial_ports(); no port: main returns
main_191 ==
    /\ pc = "L191"
    /\ \E ports \in PortLists :
         IF ports = <<>>
         THEN /\ setup' = [setup EXCEPT !.stage = "listed",
                                        !.said = {"No serial ports found."}]
              /\ pc' = "exited" /\ mode' = "done" /\ exit_status' = 0
         ELSE /\ setup' = [setup EXCEPT !.stage = "listed", !.ports = ports]
              /\ pc' = "L194" /\ UNCHANGED <<mode, exit_status>>
    /\ UNCHANGED <<loopvars, ser_open>>

\* lines 194-197: port = select_serial_port(available_ports); no port: main
\* reports and returns
main_194 ==
    /\ pc = "L194"
    /\ \E input \in PortInputs :
         LET r == select_serial_port(setup.ports, input)
         IN  IF r.port = NoPort
             THEN /\ setup' = [setup EXCEPT !.stage = "selected",
                     !.choice = input, !.port = r.port,
                     !.said = @ \cup r.said \cup {"No serial port selected. Exiting."}]
                  /\ pc' = "exited" /\ mode' = "done" /\ exit_status' = 0
             ELSE /\ setup' = [setup EXCEPT !.stage = "selected",
                     !.choice = input, !.port = r.port, !.said = @ \cup r.said]
                  /\ pc' = "L199" /\ UNCHANGED <<mode, exit_status>>
    /\ UNCHANGED <<loopvars, ser_open>>

\* lines 199-202: baud = get_baud_rate(); no baud: main reports and returns
main_199 ==
    /\ pc = "L199"
    /\ \E input \in BaudInputs :
         LET r == get_baud_rate(input)
         IN  IF r.baud = NoBaud
             THEN /\ setup' = [setup EXCEPT !.stage = "baud",
                     !.entry = input, !.baud = r.baud,
                     !.said = @ \cup r.said \cup {"No baud rate selected. Exiting."}]
                  /\ pc' = "exited" /\ mode' = "done" /\ exit_status' = 0
             ELSE /\ setup' = [setup EXCEPT !.stage = "baud",
                     !.entry = input, !.baud = r.baud, !.said = @ \cup r.said]
                  /\ pc' = "L204" /\ UNCHANGED <<mode, exit_status>>
    /\ UNCHANGED <<loopvars, ser_open>>

\* lines 204-209: ser = serial.Serial(port, baud, timeout=1), or
\* SerialException: main reports and returns
main_204 ==
    /\ pc = "L204"
    /\ \/ /\ ser_open' = TRUE
          /\ setup' = [setup EXCEPT !.stage = "connected"]
          /\ pc' = "L211" /\ UNCHANGED <<mode, exit_status>>
       \/ /\ setup' = [setup EXCEPT !.said = @ \cup {"Failed to connect"}]
          /\ pc' = "exited" /\ mode' = "done" /\ exit_status' = 0
          /\ UNCHANGED ser_open
    /\ UNCHANGED loopvars

\* lines 211-214: the loop is entered (it reads neither port nor baud again)
main_211 ==
    /\ pc = "L211"
    /\ pc' = "L216" /\ mode' = "loop"
    /\ setup' = NoSetup
    /\ UNCHANGED <<loopvars, ser_open, exit_status>>

(* ----------------------------- the clock ------------------------------ *)
\* (the shutdown path reads no clock, so the clock is followed in the loop only)
Tick ==
    /\ mode = "loop" /\ now < MaxClock
    /\ UNCHANGED <<setup, intr>>
    /\ now' = now + 1
    /\ UNCHANGED <<pc, ret, mode, globals, ser_open, locals, fs, exit_status,
                   line, hist, cause, stopPre>>

(* ------------------------ main: the read loop ------------------------- *)
\* line 216: ser.in_waiting; a SerialException here is outside the inner try
main_216 ==
    /\ pc = "L216"
    /\ UNCHANGED <<setup, intr>>
    /\ \/ pc' = "L218" /\ cause' = cause
       \/ pc' = "L225" /\ cause' = cause
       \/ pc' = "L229" /\ cause' = "serial"
    /\ UNCHANGED <<ret, mode, globals, ser_open, locals, fs, now, exit_status,
                   line, hist, stopPre>>

\* lines 218-221: readline, decode, strip; a non-empty line is processed
main_218 ==
    /\ pc = "L218"
    /\ UNCHANGED <<setup, intr>>
    /\ \/ /\ pc' = "L225"
          /\ UNCHANGED <<line, hist, cause>>
       \/ /\ pc' = "L223" /\ cause' = "serial"
          /\ UNCHANGED <<line, hist>>
       \/ \E l \in Lines :
            /\ HasStart(l) => Len(fs.handles) < MaxOpens
            /\ StartsWithData(l) => nrows < MaxRows
            /\ pc' = "L99"
            /\ line' = l
            /\ pre' = [opened |-> opened, s |-> Session]
            /\ wrote' = 0 /\ opened' = None
            /\ startFail' = "none" /\ reported' = FALSE
            /\ sessLines' = IF HasStart(l) \/ ~is_logging THEN <<>>
                            ELSE IF ValidDataLine(l) THEN Append(sessLines, l)
                            ELSE sessLines
            /\ UNCHANGED <<written, nrows, cause>>
    /\ UNCHANGED <<ret, mode, globals, ser_open, locals, fs, now, exit_status,
                   stopPre>>

\* lines 222-224: the SerialException of the inner try: report and break
main_223 ==
    /\ pc = "L223"
    /\ UNCHANGED <<setup, intr>>
    /\ pc' = "L229"
    /\ UNCHANGED <<ret, mode, globals, ser_open, locals, fs, now, exit_status,
                   line, hist, cause, stopPre>>

\* line 225: time.sleep(0.01), then the next iteration
main_225 ==
    /\ pc = "L225"
    /\ UNCHANGED <<setup, intr>>
    /\ pc' = "L216"
    /\ line' = <<>> /\ pre' = NoPre /\ wrote' = 0
    /\ startFail' = "none" /\ reported' = FALSE
    /\ sessLines' = IF is_logging THEN sessLines ELSE <<>>
    /\ stopPre' = NoStop
    /\ timestamp' = NoLocal /\ parsed_data' = NoLocal /\ row_ts' = NoLocal
    /\ UNCHANGED <<ret, mode, globals, ser_open, fs, now, exit_status,
                   opened, written, nrows, cause>>

(* ------------------------- process_serial_line ------------------------ *)
DataBranchAnySession(l) == StartsWithData(l)

\* line 103: line.startswith("DATA,") and is_logging
DataBranch(l) == StartsWithData(l) /\ is_logging

process_serial_line_99_stop_first ==
    /\ pc = "L99"
    /\ UNCHANGED <<setup, intr>>
    /\ IF HasStop(line) THEN pc' = "L84" /\ ret' = "L225"
       ELSE IF HasStart(line) THEN pc' = "L54" /\ ret' = ret
       ELSE IF StartsWithData(line) /\ is_logging THEN pc' = "L104" /\ ret' = ret
       ELSE pc' = "L225" /\ ret' = ret
    /\ stopPre' = IF HasStop(line) THEN StopCall ELSE stopPre
    /\ UNCHANGED <<mode, globals, ser_open, locals, fs, now, exit_status,
                   line, hist, cause>>

\* lines 99-103: the if / elif / elif chain
process_serial_line_99 ==
    /\ pc = "L99"
    /\ UNCHANGED <<setup, intr>>
    /\ IF HasStart(line) THEN pc' = "L54" /\ ret' = ret
       ELSE IF HasStop(line) THEN pc' = "L84" /\ ret' = "L225"
       ELSE IF DataBranch(line) THEN pc' = "L104" /\ ret' = ret
       ELSE pc' = "L225" /\ ret' = ret
    /\ stopPre' = IF ~HasStart(line) /\ HasStop(line) THEN StopCall ELSE stopPre
    /\ UNCHANGED <<mode, globals, ser_open, locals, fs, now, exit_status,
                   line, hist, cause>>

\* line 104
process_serial_line_104 ==
    /\ pc = "L104"
    /\ UNCHANGED <<setup, intr>>
    /\ parsed_data' = parse_data_line(line)
    /\ pc' = "L105"
    /\ UNCHANGED <<ret, mode, globals, ser_open, timestamp, row_ts, fs, now,
                   exit_status, line, hist, cause, stopPre>>

\* line 105: if parsed_data and csv_writer
process_serial_line_105 ==
    /\ pc = "L105"
    /\ UNCHANGED <<setup, intr>>
    /\ pc' = IF parsed_data.ok /\ csv_writer # None THEN "L106" ELSE "L225"
    /\ UNCHANGED <<ret, mode, globals, ser_open, locals, fs, now, exit_status,
                   line, hist, cause, stopPre>>

\* line 106
process_serial_line_106 ==
    /\ pc = "L106"
    /\ UNCHANGED <<setup, intr>>
    /\ row_ts' = StrfMillis(now)
    /\ pc' = "L109"
    /\ UNCHANGED <<ret, mode, globals, ser_open, timestamp, parsed_data, fs,
                   now, exit_status, line, hist, cause, stopPre>>

\* lines 109-116: csv_writer.writerow(...); writing to a closed file raises
\* ValueError, which nothing in the loop catches
process_serial_line_109 ==
    /\ pc = "L109"
    /\ UNCHANGED <<setup, intr>>
    /\ IF fs.handles[csv_writer].open
       THEN /\ fs' = WriteRow(fs, csv_writer, DataRow(row_ts, parsed_data))
            /\ written' = [written EXCEPT ![csv_writer] =
                              Append(@, DataRow(row_ts, parsed_data))]
            /\ wrote' = wrote + 1 /\ nrows' = nrows + 1
            /\ pc' = "L117" /\ cause' = cause
       ELSE /\ pc' = "L229" /\ cause' = "error"
            /\ UNCHANGED <<fs, written, wrote, nrows>>
    /\ UNCHANGED <<ret, mode, globals, ser_open, locals, now, exit_status,
                   line, pre, opened, startFail, reported, sessLines, stopPre>>

process_serial_line_117_no_flush ==
    /\ pc = "L117"
    /\ UNCHANGED <<setup, intr>>
    /\ pc' = "L225"
    /\ UNCHANGED <<ret, mode, globals, ser_open, locals, fs, now, exit_status,
                   line, hist, cause, stopPre>>

\* line 117: csv_file.flush(); on None it raises AttributeError
process_serial_line_117 ==
    /\ pc = "L117"
    /\ UNCHANGED <<setup, intr>>
    /\ IF csv_file # None
       THEN fs' = Flush(fs, csv_file) /\ pc' = "L225" /\ cause' = cause
       ELSE fs' = fs /\ pc' = "L229" /\ cause' = "error"
    /\ UNCHANGED <<ret, mode, globals, ser_open, locals, now, exit_status,
                   line, hist, stopPre>>

(* ---------------------------- start_logging --------------------------- *)
\* lines 54-55: if is_logging: stop_logging()
start_logging_54 ==
    /\ pc = "L54"
    /\ UNCHANGED <<setup, intr>>
    /\ IF is_logging
       THEN pc' = "L84" /\ ret' = "L57" /\ stopPre' = StopCall
       ELSE pc' = "L57" /\ UNCHANGED <<ret, stopPre>>
    /\ UNCHANGED <<mode, globals, ser_open, locals, fs, now, exit_status,
                   line, hist, cause>>

\* line 57
start_logging_57 ==
    /\ pc = "L57"
    /\ UNCHANGED <<setup, intr>>
    /\ timestamp' = StrfSeconds(now)
    /\ pc' = "L58"
    /\ stopPre' = NoStop
    /\ UNCHANGED <<ret, mode, globals, ser_open, parsed_data, row_ts, fs, now,
                   exit_status, line, hist, cause>>

\* line 58: os.makedirs("logs", exist_ok=True), before the try of line 61: its
\* OSError leaves start_logging, process_serial_line and the loop (the inner
\* handler of line 222 catches SerialException only)
start_logging_58 ==
    /\ pc = "L58"
    /\ UNCHANGED <<setup, intr>>
    /\ \/ pc' = "L59" /\ UNCHANGED <<startFail, cause>>
       \/ pc' = "L229" /\ startFail' = "makedirs" /\ cause' = "error"
    /\ UNCHANGED <<ret, mode, globals, ser_open, locals, fs, now, exit_status,
                   line, pre, wrote, opened, reported, sessLines, written,
                   nrows, stopPre>>

\* line 59
start_logging_59 ==
    /\ pc = "L59"
    /\ UNCHANGED <<setup, intr>>
    /\ current_csv_filename' = PathOf(timestamp)
    /\ pc' = "L62"
    /\ UNCHANGED <<ret, mode, is_logging, csv_file, csv_writer, ser_open,
                   locals, fs, now, exit_status, line, hist, cause, stopPre>>

\* line 62: csv_file = open(current_csv_filename, 'w', ...), or IOError
start_logging_62 ==
    /\ pc = "L62"
    /\ UNCHANGED <<setup, intr>>
    /\ \/ /\ fs' = OpenW(fs, current_csv_filename)
          /\ csv_file' = Len(fs.handles) + 1
          /\ opened' = Len(fs.handles) + 1
          /\ written' = Append(written, <<>>)
          /\ pc' = "L63"
          /\ UNCHANGED startFail
       \/ /\ startFail' = "open"
          /\ pc' = "L76"
          /\ UNCHANGED <<fs, csv_file, opened, written>>
    /\ UNCHANGED <<ret, mode, is_logging, csv_writer, current_csv_filename,
                   ser_open, locals, now, exit_status, line, pre, wrote,
                   reported, sessLines, nrows, cause, stopPre>>

\* line 63: csv_writer = csv.writer(csv_file); the writer bound before is
\* dropped, and with it the last reference to a file that line 77 unbound
\* without closing
start_logging_63 ==
    /\ pc = "L63"
    /\ UNCHANGED <<setup, intr>>
    /\ csv_writer' = csv_file
    /\ \E gc \in BOOLEAN :
         fs' = IF csv_writer # csv_file THEN Finalised(fs, csv_writer, gc) ELSE fs
    /\ pc' = "L66"
    /\ UNCHANGED <<ret, mode, is_logging, csv_file, current_csv_filename,
                   ser_open, locals, now, exit_status, line, hist, cause,
                   stopPre>>

start_logging_66_no_header ==
    /\ pc = "L66"
    /\ UNCHANGED <<setup, intr>>
    /\ pc' = "L72"
    /\ UNCHANGED <<ret, mode, globals, ser_open, locals, fs, now, exit_status,
                   line, hist, cause, stopPre>>

\* lines 66-70: csv_writer.writerow(header), or IOError
start_logging_66 ==
    /\ pc = "L66"
    /\ UNCHANGED <<setup, intr>>
    /\ \/ /\ fs' = WriteRow(fs, csv_writer, HeaderRow)
          /\ written' = [written EXCEPT ![csv_writer] = Append(@, HeaderRow)]
          /\ pc' = "L72"
          /\ UNCHANGED startFail
       \/ /\ startFail' = "header"
          /\ pc' = "L76"
          /\ UNCHANGED <<fs, written>>
    /\ UNCHANGED <<ret, mode, globals, ser_open, locals, now, exit_status,
                   line, pre, wrote, opened, reported, sessLines, nrows, cause,
                   stopPre>>

\* lines 72-73; start_logging returns, and process_serial_line with it
start_logging_72 ==
    /\ pc = "L72"
    /\ UNCHANGED <<setup, intr>>
    /\ is_logging' = TRUE
    /\ pc' = "L225"
    /\ UNCHANGED <<ret, mode, csv_file, csv_writer, current_csv_filename,
                   ser_open, locals, fs, now, exit_status, line, hist, cause,
                   stopPre>>

\* lines 75-76: except IOError: report
start_logging_76 ==
    /\ pc = "L76"
    /\ UNCHANGED <<setup, intr>>
    /\ reported' = TRUE
    /\ pc' = "L77"
    /\ UNCHANGED <<ret, mode, globals, ser_open, locals, fs, now, exit_status,
                   line, pre, wrote, opened, startFail, sessLines, written,
                   nrows, cause, stopPre>>

start_logging_77_keeps_file ==
    /\ pc = "L77"
    /\ pc' = "L78"
    /\ UNCHANGED <<ret, mode, globals, ser_open, locals, fs, now, exit_status,
                   line, hist, cause, stopPre, setup, intr>>

\* line 77: csv_file = None (the file, when line 62 opened one, is not closed)
start_logging_77 ==
    /\ pc = "L77"
    /\ UNCHANGED <<setup, intr>>
    /\ csv_file' = None
    /\ pc' = "L78"
    /\ UNCHANGED <<ret, mode, is_logging, csv_writer, current_csv_filename,
                   ser_open, locals, fs, now, exit_status, line, hist, cause,
                   stopPre>>

\* line 78
start_logging_78 ==
    /\ pc = "L78"
    /\ UNCHANGED <<setup, intr>>
    /\ is_logging' = FALSE
    /\ pc' = "L225"
    /\ UNCHANGED <<ret, mode, csv_file, csv_writer, current_csv_filename,
                   ser_open, locals, fs, now, exit_status, line, hist, cause,
                   stopPre>>

(* ---------------------------- stop_logging ---------------------------- *)
\* line 84: if csv_file
stop_logging_84 ==
    /\ pc = "L84"
    /\ UNCHANGED <<setup, intr>>
    /\ pc' = IF csv_file # None THEN "L85" ELSE "L90"
    /\ UNCHANGED <<ret, mode, globals, ser_open, locals, fs, now, exit_status,
                   line, hist, cause, stopPre>>

\* lines 85-86: csv_file.close()
stop_logging_85 ==
    /\ pc = "L85"
    /\ UNCHANGED <<setup, intr>>
    /\ fs' = Close(fs, csv_file)
    /\ pc' = "L87"
    /\ UNCHANGED <<ret, mode, globals, ser_open, locals, now, exit_status,
                   line, hist, cause, stopPre>>

\* line 87
stop_logging_87 ==
    /\ pc = "L87"
    /\ UNCHANGED <<setup, intr>>
    /\ csv_file' = None
    /\ pc' = "L88"
    /\ UNCHANGED <<ret, mode, is_logging, csv_writer, current_csv_filename,
                   ser_open, locals, fs, now, exit_status, line, hist, cause,
                   stopPre>>

\* line 88: csv_writer = None; the writer's file loses its last reference
stop_logging_88 ==
    /\ pc = "L88"
    /\ UNCHANGED <<setup, intr>>
    /\ csv_writer' = None
    /\ \E gc \in BOOLEAN : fs' = Finalised(fs, csv_writer, gc)
    /\ pc' = "L90"
    /\ UNCHANGED <<ret, mode, is_logging, csv_file, current_csv_filename,
                   ser_open, locals, now, exit_status, line, hist, cause,
                   stopPre>>

stop_logging_90_reset ==
    /\ pc = "L90"
    /\ UNCHANGED <<setup, intr>>
    /\ is_logging' = FALSE
    /\ current_csv_filename' = <<>>
    /\ pc' = ret
    /\ UNCHANGED <<ret, mode, csv_file, csv_writer, ser_open, locals, fs, now,
                   exit_status, line, hist, cause, stopPre>>

stop_logging_90_keeps_flag ==
    /\ pc = "L90"
    /\ pc' = ret
    /\ UNCHANGED <<ret, mode, globals, ser_open, locals, fs, now, exit_status,
                   line, hist, cause, stopPre, setup, intr>>

\* line 90, and the return to the caller
stop_logging_90 ==
    /\ pc = "L90"
    /\ UNCHANGED <<setup, intr>>
    /\ is_logging' = FALSE
    /\ pc' = ret
    /\ UNCHANGED <<ret, mode, csv_file, csv_writer, current_csv_filename,
                   ser_open, locals, fs, now, exit_status, line, hist, cause,
                   stopPre>>

(* --------------------- signal_handler and shutdown --------------------- *)
\* The frames of the interrupted calls are unwound: their locals are gone, and
\* the history of the line they were processing ends.
LineForgotten ==
    /\ timestamp' = NoLocal /\ parsed_data' = NoLocal /\ row_ts' = NoLocal
    /\ line' = <<>> /\ pre' = NoPre /\ wrote' = 0 /\ opened' = None
    /\ reported' = FALSE /\ sessLines' = <<>>
    /\ UNCHANGED <<startFail, written, nrows>>

\* the lines of process_serial_line, start_logging and stop_logging
CallLines == {"L99", "L104", "L105", "L106", "L109", "L117", "L54", "L57",
              "L58", "L59", "L62", "L63", "L66", "L72", "L76", "L77", "L78",
              "L84", "L85", "L87", "L88", "L90"}

LoopLines == {"L216", "L218", "L223", "L225", "L99", "L104", "L105", "L106",
              "L109", "L117", "L54", "L57", "L58", "L59", "L62", "L63", "L66",
              "L72", "L76", "L77", "L78", "L84", "L85", "L87", "L88", "L90"}

\* SIGINT while the loop runs: the handler of line 187 is entered between two
\* statements of the main thread, whatever they are
Interrupt ==
    /\ mode = "loop" /\ pc \in LoopLines
    /\ intr' = IF pc \in CallLines THEN "call" ELSE "loop"
    /\ UNCHANGED setup
    /\ mode' = "sigint" /\ cause' = "sigint"
    /\ pc' = "L178"
    /\ LineForgotten
    /\ UNCHANGED <<ret, globals, ser_open, fs, now, exit_status, stopPre>>

\* lines 229-230: finally: signal_handler(None, None)
main_229 ==
    /\ pc = "L229"
    /\ UNCHANGED <<setup, intr>>
    /\ mode' = "finally"
    /\ pc' = "L178"
    /\ LineForgotten
    /\ UNCHANGED <<ret, globals, ser_open, fs, now, exit_status, cause,
                   stopPre>>

\* lines 177-178: stop_logging()
signal_handler_178 ==
    /\ pc = "L178"
    /\ UNCHANGED <<setup, intr>>
    /\ pc' = "L84" /\ ret' = "L179"
    /\ stopPre' = StopCall
    /\ UNCHANGED <<mode, globals, ser_open, locals, fs, now, exit_status, line,
                   hist, cause>>

\* lines 179-181: if ser and ser.is_open: ser.close()
signal_handler_179 ==
    /\ pc = "L179"
    /\ intr' = "none"
    /\ UNCHANGED setup
    /\ ser_open' = FALSE
    /\ pc' = "L182"
    /\ stopPre' = NoStop
    /\ UNCHANGED <<ret, mode, globals, locals, fs, now, exit_status, line,
                   hist, cause>>

signal_handler_182_returns ==
    /\ pc = "L182"
    /\ pc' = "L225"
    /\ UNCHANGED <<ret, mode, globals, ser_open, locals, fs, now, exit_status,
                   line, hist, cause, stopPre, setup, intr>>

\* line 182: sys.exit(0).  Raised in the handler the signal started, the
\* SystemExit unwinds the try of line 214 and runs its finally; raised in the
\* finally, it ends the process with status 0.
signal_handler_182 ==
    /\ pc = "L182"
    /\ UNCHANGED <<setup, intr>>
    /\ IF mode = "sigint"
       THEN pc' = "L229" /\ UNCHANGED <<mode, exit_status>>
       ELSE pc' = "exited" /\ mode' = "done" /\ exit_status' = 0
    /\ UNCHANGED <<ret, globals, ser_open, locals, fs, now, line, hist, cause,
                   stopPre>>

Next ==
    \/ main_191 \/ main_194 \/ main_199 \/ main_204 \/ main_211
    \/ Tick
    \/ main_216 \/ main_218 \/ main_223 \/ main_225
    \/ process_serial_line_99 \/ process_serial_line_104
    \/ process_serial_line_105 \/ process_serial_line_106
    \/ process_serial_line_109 \/ process_serial_line_117
    \/ start_logging_54 \/ start_logging_57 \/ start_logging_58
    \/ start_logging_59 \/ start_logging_62 \/ start_logging_63
    \/ start_logging_66 \/ start_logging_72 \/ start_logging_76
    \/ start_logging_77 \/ start_logging_78
    \/ stop_logging_84 \/ stop_logging_85 \/ stop_logging_87
    \/ stop_logging_88 \/ stop_logging_90
    \/ Interrupt \/ main_229
    \/ signal_handler_178 \/ signal_handler_179 \/ signal_handler_182

Spec == Init /\ [][Next]_vars

(* ------------------------------ properties ---------------------------- *)
\* process_serial_line has returned to the loop (line 225 is next) after
\* processing `line`
Returned == pc = "L225" /\ line # <<>>

PathOfHandle(h) == fs.handles[h].path

IsHeader(r) == r.kind = "header" /\ r.cols = HeaderRow.cols

\* C1: a valid data-frame line handled while is_logging is false writes no row
\* to any file and leaves nothing behind for a later session: at every step of
\* its processing, and when process_serial_line has returned, no row has been
\* written and the session variables, every file object (its buffer included)
\* and the storage are as they were when the line was read.
C1_NoRowWhileInactive ==
    (ValidDataLine(line) /\ ~pre.s.is_logging)
        => (wrote = 0 /\ Session = pre.s)

C1_Witness ==
    /\ Returned /\ ValidDataLine(line) /\ ~pre.s.is_logging
    /\ Len(fs.handles) > 0

\* C2 (as claimed): at most one file opened by start_logging is open at a time.
C2_AtMostOneOpenFile == Cardinality(OpenHandles(fs)) <= 1

\* C3 (as claimed): two consecutive start-marker lines, both of which started
\* a session, leave two files of different paths, the first holding its header
\* row only.
C3_TwoStartsTwoFiles ==
    (Returned /\ HasStart(line) /\ is_logging
        /\ pre.opened # None /\ pre.s.is_logging /\ pre.s.csv_file = pre.opened)
        => /\ PathOfHandle(pre.opened) # PathOfHandle(csv_file)
           /\ Len(fs.disk[PathOfHandle(pre.opened)]) = 1
           /\ IsHeader(fs.disk[PathOfHandle(pre.opened)][1])

\* C4 (as claimed): the rows written to a file are all in that file once it is
\* closed, whatever start, stop and data lines follow.
C4_ClosedFileKeepsRows ==
    \A h \in 1..Len(fs.handles) :
        ~fs.handles[h].open => fs.disk[PathOfHandle(h)] = written[h]

\* C5 (as claimed): when a step of start_logging fails while processing a
\* line (and no signal or serial error ends the loop), the loop keeps running,
\* and when the line is done the failure has been reported and the session is
\* inactive.
C5_StartFailureNotFatal ==
    (startFail # "none" /\ cause \notin {"sigint", "serial"})
        => /\ mode = "loop" /\ pc # "L229"
           /\ (pc = "L225" => reported /\ ~is_logging)

StopReturned == stopPre.called /\ pc \in {"L57", "L225", "L179"}

\* C6 (as claimed): a stop_logging call that begins while is_logging is false
\* changes no session variable and no file.
C6_StopNoOpWhenNotLogging ==
    (StopReturned /\ ~stopPre.s.is_logging) => Session = stopPre.s

\* C6 (amended): a stop_logging call that begins while is_logging is false and
\* csv_file is None changes no session variable and no file; and every
\* stop_logging call returns in such a state, so that a second call changes
\* nothing.
C6_StopIdempotent ==
    StopReturned
        => /\ ~is_logging /\ csv_file = None
           /\ (~stopPre.s.is_logging /\ stopPre.s.csv_file = None)
                 => Session = stopPre.s

\* the second of two calls in a row (the handler run by the signal, then the
\* handler run by the finally clause) has returned, after a session with a file
C6_Witness ==
    /\ StopReturned /\ pc = "L179" /\ mode = "finally" /\ cause = "sigint"
    /\ ~stopPre.s.is_logging /\ stopPre.s.csv_file = None
    /\ Len(fs.handles) > 0

\* C7 (as claimed): when the process has ended because of a signal or a serial
\* error, no output file is open, is_logging is false, the serial connection
\* is closed and the exit status is 0.
C7_ShutdownLeavesNothingOpen ==
    (mode = "done" /\ cause \in {"sigint", "serial"})
        => /\ OpenHandles(fs) = {}
           /\ ~is_logging /\ ~ser_open /\ exit_status = 0

\* the two cases of C8, stated on the text of the line
ConversionFails(tok) ==
    \E fld \in {tok.x, tok.y, tok.z, tok.s} : ~FloatOf(fld).ok

NoFrameLine(l) ==
    /\ ~HasStart(l) /\ ~HasStop(l)
    /\ \/ PatternSearch(l) = 0
       \/ ConversionFails(l[PatternSearch(l)])

\* C8: a line that matches no marker and no data pattern, or matches the data
\* pattern with a field that does not convert, writes no row and leaves the
\* session (flag, file, writer, filename, files) as it was, active or not, at
\* every step of its processing and when process_serial_line has returned.
C8_NoFrameNoEffect ==
    (line # <<>> /\ NoFrameLine(line)) => (wrote = 0 /\ Session = pre.s)

C8_Witness ==
    /\ Returned /\ line = <<BadNumFrame>> /\ pre.s.is_logging

\* the columns after the timestamp
Fields(r) == SubSeq(r.cols, 2, 6)
FieldsOfLine(l) == Fields(DataRow(0, parse_data_line(l)))

\* C9: when a stop-marker line ends an active session, the session has one
\* file, closed, whose rows on storage are the header row followed by one data
\* row per valid data line of the session, in arrival order.
C9_SessionFile ==
    (Returned /\ ~HasStart(line) /\ HasStop(line) /\ pre.s.is_logging)
        => LET h == pre.s.csv_file
               rows == fs.disk[PathOfHandle(h)]
           IN  /\ Len(fs.handles) = h
               /\ ~fs.handles[h].open
               /\ Len(rows) = 1 + Len(sessLines)
               /\ IsHeader(rows[1])
               /\ \A i \in 1..Len(sessLines) :
                    /\ rows[i + 1].kind = "data"
                    /\ Fields(rows[i + 1]) = FieldsOfLine(sessLines[i])

C9_Witness ==
    /\ Returned /\ ~HasStart(line) /\ HasStop(line) /\ pre.s.is_logging
    /\ Len(sessLines) = 2 /\ sessLines[1] # sessLines[2]

\* C10: when process_serial_line has returned after writing a data row, the
\* file object has nothing buffered and every row written in the session (the
\* header, the earlier rows, this row) is on storage.
C10_RowsFlushed ==
    (Returned /\ wrote > 0)
        => /\ csv_file # None
           /\ fs.handles[csv_file].buf = <<>>
           /\ fs.disk[PathOfHandle(csv_file)] = written[csv_file]

C10_Witness ==
    /\ Returned /\ wrote > 0
    /\ Len(written[csv_file]) = 3

\* the two invalid inputs of C11, stated on what was typed
BadPortIndex(ports, input) ==
    /\ ~input.eof /\ IsIntText(input.text)
    /\ IntText(input.text) \notin 0..(Len(ports) - 1)

BadBaudEntry(input) ==
    ~input.eof /\ input.text # <<>> /\ ~IsIntText(input.text)

PortTyped == setup.stage \in {"selected", "baud", "connected"}
BaudTyped == setup.stage \in {"baud", "connected"}

\* C11 (as claimed): after a port index outside the list, or a baud entry that
\* is no number, the process has exited with no serial connection opened.
C11_InvalidInputExits ==
    \/ PortTyped /\ BadPortIndex(setup.ports, setup.choice)
    \/ BaudTyped /\ BadBaudEntry(setup.entry)
    => ~ser_open /\ pc # "L211"

\* C11 (amended): a port index outside the list is reported and main returns
\* (status 0) with no serial connection opened; a baud entry that is no number
\* is reported and replaced by the default 115200, and setup goes on to open
\* the connection.
C11_InvalidInputHandled ==
    /\ (PortTyped /\ BadPortIndex(setup.ports, setup.choice))
         => /\ "Invalid port number." \in setup.said
            /\ pc = "exited" /\ exit_status = 0 /\ ~ser_open
    /\ (BaudTyped /\ BadBaudEntry(setup.entry))
         => /\ "Invalid number, using default." \in setup.said
            /\ setup.baud = DefaultBaud
            /\ pc \in {"L204", "L211", "exited"}
            /\ pc = "L211" => ser_open
            /\ pc = "exited" => "Failed to connect" \in setup.said

C11_Witness ==
    /\ BaudTyped /\ BadBaudEntry(setup.entry)
    /\ pc = "L211" /\ ser_open

StopLines == {"L84", "L85", "L87", "L88", "L90"}
ShutdownLines == {"L178", "L179", "L182", "L229", "exited"} \cup StopLines

\* C12 (as claimed): no control path other than the loop reads or modifies
\* csv_file, csv_writer or is_logging while a call of start_logging,
\* stop_logging or process_serial_line is in progress: the stop_logging of the
\* signal handler never runs over such a call.
C12_NoInterleaving ==
    ~(mode = "sigint" /\ intr = "call" /\ pc \in StopLines)

\* C12 (amended): the signal handler does run stop_logging in the middle of
\* such a call, but the interrupted call never runs again: once the signal
\* has come, the main thread runs the lines of the shutdown only, and the
\* stop_logging it runs returns to the handler.
C12_InterruptedCallNeverResumes ==
    /\ intr = "call" => mode = "sigint"
    /\ mode \in {"sigint", "finally", "done"}
         => /\ pc \in ShutdownLines
            /\ pc \in StopLines => ret = "L179"

\* the handler has closed the file of a session in the middle of a call
C12_Witness ==
    /\ mode = "sigint" /\ intr = "call" /\ pc = "L90"
    /\ stopPre.s.csv_file # None /\ csv_file = None

\* termination leaves the session Idle
EndsIdle == mode = "done" => ~is_logging

\* the transitions of a line that C13 shares with its amended form
IdleToActive ==
    (Returned /\ ~pre.s.is_logging /\ is_logging)
        => HasStart(line) /\ startFail = "none"

ActiveToActive ==
    (Returned /\ pre.s.is_logging /\ is_logging)
        => IF HasStart(line)
           THEN csv_file # pre.s.csv_file /\ csv_file = opened
           ELSE Session = [pre.s EXCEPT !.fs = fs]

\* C13 (as claimed): a line moves the session from Idle to Active, or from
\* Active to a new file, only if it has the start marker, and from Active to
\* Idle only if it is a stop-marker line; termination leaves it Idle.
C13_Transitions ==
    /\ IdleToActive /\ ActiveToActive /\ EndsIdle
    /\ (Returned /\ pre.s.is_logging /\ ~is_logging)
         => ~HasStart(line) /\ HasStop(line)

\* C13 (amended): as claimed, and a start-marker line also moves the session
\* from Active to Idle when its open() or its header write fails.
C13_TransitionsWithFailedStart ==
    /\ IdleToActive /\ ActiveToActive /\ EndsIdle
    /\ (Returned /\ pre.s.is_logging /\ ~is_logging)
         => \/ ~HasStart(line) /\ HasStop(line)
            \/ HasStart(line) /\ startFail \in {"open", "header"}

C13_Witness ==
    /\ Returned /\ pre.s.is_logging /\ ~is_logging
    /\ HasStart(line) /\ startFail = "open"

\* C14: a line with the start marker, whatever else it holds, is given to
\* start_logging once and to nothing else: no data row is written at any step;
\* at most one file is opened; when no step of start_logging failed the line
\* leaves a session active on the file it opened, which holds the header row
\* only (so no stop_logging followed); when one failed it leaves the session
\* inactive.
C14_StartMarkerStartsOnce ==
    /\ HasStart(line) => wrote = 0
    /\ (Returned /\ HasStart(line))
         => /\ Len(fs.handles) <= Len(pre.s.fs.handles) + 1
            /\ startFail = "none"
                 => /\ is_logging /\ opened # None /\ csv_file = opened
                    /\ Len(fs.handles) = Len(pre.s.fs.handles) + 1
                    /\ opened = Len(fs.handles)
                    /\ fs.handles[opened].open
                    /\ written[opened] = <<HeaderRow>>
            /\ startFail # "none" => ~is_logging /\ csv_file = None

C14_Witness ==
    /\ Returned /\ line = <<JunkTok, StartTok, StopTok>>
    /\ pre.s.is_logging /\ is_logging

\* the values at the five positions of the matched text
ValuesOfText(tok) ==
    <<FloatOf(tok.x).val, FloatOf(tok.y).val, FloatOf(tok.z).val,
      DigitVal(tok.f[1]), FloatOf(tok.s).val>>

\* what the file of handle h held, on storage and buffered, in the state f
RowsOf(f, h) == f.disk[f.handles[h].path] \o f.handles[h].buf

\* C15: a valid data line read while a session is active appends exactly one
\* row to the session's file, whose columns after the timestamp are the values
\* of the X, Y, Z, Fix and Spd texts of the line, in that order (for the line
\* of the scenario: 0.12, -0.03, 9.81, 1, 42.5, in hundredths).
C15_OneRowWithParsedValues ==
    (Returned /\ ValidDataLine(line) /\ pre.s.is_logging)
        => LET h == csv_file
               before == RowsOf(pre.s.fs, h)
               after == RowsOf(fs, h)
               r == after[Len(after)]
           IN  /\ wrote = 1 /\ h = pre.s.csv_file
               /\ Len(after) = Len(before) + 1
               /\ SubSeq(after, 1, Len(before)) = before
               /\ r.kind = "data"
               /\ Fields(r) = ValuesOfText(line[PatternSearch(line)])
               /\ line = <<GoodFrame>>
                    => Fields(r) = <<12, 0 - 3, 981, 1, 4250>>
               /\ \A p \in DOMAIN fs.disk :
                    p # PathOfHandle(h) => fs.disk[p] = pre.s.fs.disk[p]

C15_Witness ==
    /\ Returned /\ line = <<GoodFrame>> /\ pre.s.is_logging /\ wrote = 1

\* every data row, on storage or buffered
AllDataRows ==
    {r \in UNION {{RowsOf(fs, h)[i] : i \in 1..Len(RowsOf(fs, h))} :
                     h \in 1..Len(fs.handles)} : r.kind = "data"}

\* C16: the GPS_Fix column of every data row is 0 or 1.
C16_FixIsZeroOrOne == \A r \in AllDataRows : r.cols[5] \in {0, 1}

BetweenLines == mode = "loop" /\ pc \in {"L216", "L218", "L225"}

\* C17: between two lines, is_logging is true exactly when csv_file is an open
\* file, and then csv_writer writes to that file and current_csv_filename is
\* its path.
C17_FlagMatchesFile ==
    BetweenLines
        => /\ is_logging <=> (csv_file # None /\ fs.handles[csv_file].open)
           /\ is_logging => /\ csv_writer = csv_file
                            /\ current_csv_filename = PathOfHandle(csv_file)

C17_Witness ==
    /\ BetweenLines /\ is_logging /\ csv_file = 2
    /\ fs.handles[1].open

\* the file object of the most recent start_logging that succeeded (the only
\* ones a header row was written to), None when there is none
LastStarted ==
    LET ok == {h \in 1..Len(written) : written[h] # <<>>}
    IN  IF ok = {} THEN None ELSE CHOOSE h \in ok : \A g \in ok : g <= h

\* C18: a row is written (line 109) and flushed (line 117) only by the loop,
\* only through the writer of the file csv_file is bound to, which is open and
\* is the file of the most recent successful start_logging.
C18_WritesGoToOpenFile ==
    pc \in {"L109", "L117"}
        => /\ mode = "loop"
           /\ csv_file # None /\ csv_writer = csv_file
           /\ fs.handles[csv_file].open
           /\ csv_file = LastStarted

\* a row is about to be written after a start_logging that failed at the
\* header and left its file to the old writer
C18_Witness ==
    /\ pc = "L109" /\ csv_file = 2
    /\ written[1] = <<>>

====
